---------------------------- MODULE Spec2Model ----------------------------
(***************************************************************************)
(* A model of the IBD Plexus patient-metadata pipeline:                    *)
(*   - sanitize_field_name            (SRT-compliance script)              *)
(*   - ingest_long_dataframe          (long_ingestion_script.py)           *)
(*   - infer_data_type / generate_database_tables (schema compiler)        *)
(*   - create_srt_compliant_files     (compliance mapper)                  *)
(*   - process_excel_to_single_long_dataframe (wide-to-long reshaper)      *)
(* Text is modelled as sequences of one-character strings, so that the     *)
(* character-level functions (lower, upper, replace, strip, re.sub) are    *)
(* computed and not assumed.                                               *)
(***************************************************************************)
EXTENDS Integers, Sequences, FiniteSets, TLC

VARIABLES
    \* ---- sanitize_field_name applied once and twice
    san_pc, san_in, san_out1, san_out2,
    \* ---- ingest_long_dataframe: its arguments, its position, the calls it
    \* has made to the persistence service and the session's outcome
    df, batch_size, ing_pc, all_field_values, start_idx, calls, caught,
    propagated, committed,
    \* ---- type inference for one field of the long table: the field's
    \* cells, the values read back from the CSV, the inferred type
    inf_pc, inf_cells, inf_series, inf_type,
    \* ---- the scripts that hand CSV files on: the reshaper's long table,
    \* the files on disk, the scripts that have run
    long_table, files, cmp_ran,
    \* ---- the reshaper: the sheets read, the loop's position, the long
    \* tables collected and the frame returned
    \* (sheet_df is the loop's frame df of the sheet processed last)
    rs_pc, all_data, sheet_idx, sheet_df, all_long_dfs, final_combined_df,
    \* ---- the entity-identifier lists: the key column of a long table and
    \* the list each stage derives from it
    pat_keys, pat_ids,
    \* ---- get_definitions_from_long_data: its frame and the definitions
    \* it returns
    def_pc, def_df, field_defs

san_vars == <<san_pc, san_in, san_out1, san_out2>>
ing_vars == <<df, batch_size, ing_pc, all_field_values, start_idx, calls,
              caught, propagated, committed>>

inf_vars == <<inf_pc, inf_cells, inf_series, inf_type>>

cmp_vars == <<long_table, files, cmp_ran>>

rs_vars == <<rs_pc, all_data, sheet_idx, sheet_df, all_long_dfs,
             final_combined_df>>

pat_vars == <<pat_keys, pat_ids>>

def_vars == <<def_pc, def_df, field_defs>>

vars == <<san_vars, ing_vars, inf_vars, cmp_vars, rs_vars, pat_vars, def_vars>>

\* the variables of the other components, which a component leaves alone
san_others == <<ing_vars, inf_vars, cmp_vars, rs_vars, pat_vars, def_vars>>
ing_others == <<san_vars, inf_vars, cmp_vars, rs_vars, pat_vars, def_vars>>
inf_others == <<san_vars, ing_vars, cmp_vars, rs_vars, pat_vars, def_vars>>
cmp_others == <<san_vars, ing_vars, inf_vars, rs_vars, pat_vars, def_vars>>
rs_others == <<san_vars, ing_vars, inf_vars, cmp_vars, pat_vars, def_vars>>
pat_others == <<san_vars, ing_vars, inf_vars, cmp_vars, rs_vars, def_vars>>
def_others == <<san_vars, ing_vars, inf_vars, cmp_vars, rs_vars, pat_vars>>

(***************************************************************************)
(* Bounds of the model.                                                    *)
(***************************************************************************)
MaxNameLen == 3
MaxRows == 3
MaxBatch == 2
MaxWhole == 20
MaxFrac == 1
MaxText == 1
MaxDate == 2
MaxMissing == 3
MaxLongRows == 3
MaxSheetRows == 3
MaxBookRows == 1
MaxFileRows == 2
MaxKeys == 4
MaxMajor == 11

(***************************************************************************)
(* Characters and text helpers.                                            *)
(***************************************************************************)
LowerLetters == {"a", "b", "c", "d"}
UpperLetters == {"A", "B", "C", "D"}
Digits == {"0", "1", "2", "3", "4", "5", "6", "7", "8", "9"}

\* str.lower() on one character
ToLower(c) ==
    CASE c = "A" -> "a" [] c = "B" -> "b" [] c = "C" -> "c" [] c = "D" -> "d"
      [] OTHER -> c

\* str.upper() on one character
ToUpper(c) ==
    CASE c = "a" -> "A" [] c = "b" -> "B" [] c = "c" -> "C" [] c = "d" -> "D"
      [] OTHER -> c

Lower(s) == [i \in 1..Len(s) |-> ToLower(s[i])]
Upper(s) == [i \in 1..Len(s) |-> ToUpper(s[i])]

\* All texts over the character set cs of length at most n
Texts(cs, n) == UNION {[1..k -> cs] : k \in 0..n}

RECURSIVE LStrip(_, _)
LStrip(s, cs) ==
    IF s = <<>> THEN <<>>
    ELSE IF Head(s) \in cs THEN LStrip(Tail(s), cs) ELSE s

RECURSIVE RStrip(_, _)
RStrip(s, cs) ==
    IF s = <<>> THEN <<>>
    ELSE IF s[Len(s)] \in cs THEN RStrip(SubSeq(s, 1, Len(s) - 1), cs) ELSE s

\* str.strip(chars)
Strip(s, cs) == RStrip(LStrip(s, cs), cs)

\* the sequences of ss joined in order
RECURSIVE Concat(_)
Concat(ss) == IF ss = <<>> THEN <<>> ELSE Head(ss) \o Concat(Tail(ss))

(***************************************************************************)
(* sanitize_field_name                                                     *)
(***************************************************************************)
\* the character class [a-z0-9_]
NameChars == LowerLetters \cup Digits \cup {"_"}

RECURSIVE SkipInvalid(_)
SkipInvalid(s) ==
    IF s = <<>> THEN <<>>
    ELSE IF Head(s) \in NameChars THEN s ELSE SkipInvalid(Tail(s))

\* re.sub(r'[^a-z0-9_]+', '_', s): every maximal run of characters outside
\* the class becomes one underscore
RECURSIVE ReSubInvalid(_)
ReSubInvalid(s) ==
    IF s = <<>> THEN <<>>
    ELSE IF Head(s) \in NameChars
         THEN <<Head(s)>> \o ReSubInvalid(Tail(s))
         ELSE <<"_">> \o ReSubInvalid(SkipInvalid(Tail(s)))

\* mutant: the trailing strip('_') is forgotten
sanitize_no_strip(name) == ReSubInvalid(Lower(name))

sanitize_field_name(name) == Strip(ReSubInvalid(Lower(name)), {"_"})

\* raw names offered to the sanitizer
SanChars == {"a", "B", "7", "_", " ", "("}

\* the sanitizer at rest, with nothing to sanitize
SanIdle ==
    /\ san_pc = "idle"
    /\ san_in = <<>>
    /\ san_out1 = <<>>
    /\ san_out2 = <<>>

SanInit ==
    /\ san_pc = "start"
    /\ san_in \in Texts(SanChars, MaxNameLen)
    /\ san_out1 = <<>>
    /\ san_out2 = <<>>

SanitizeOnce ==
    /\ san_pc = "start"
    /\ san_out1' = sanitize_field_name(san_in)
    /\ san_pc' = "once"
    /\ UNCHANGED <<san_in, san_out2, san_others>>

SanitizeTwice ==
    /\ san_pc = "once"
    /\ san_out2' = sanitize_field_name(san_out1)
    /\ san_pc' = "twice"
    /\ UNCHANGED <<san_in, san_out1, san_others>>

SanNext == SanitizeOnce \/ SanitizeTwice

(***************************************************************************)
(* The helpers of ingest_long_dataframe (long_ingestion_script.py)         *)
(***************************************************************************)
DEFAULT_BATCH_SIZE == 5000

\* a missing cell of a DataFrame (NaN); no text is equal to it
NaN == <<"NaN">>

Whitespace == {" "}

Min(a, b) == IF a <= b THEN a ELSE b

\* mutant: each element once, in the order of the last occurrences
RECURSIVE UniqueKeepLast(_)
UniqueKeepLast(s) ==
    IF s = <<>> THEN <<>>
    ELSE LET rest == UniqueKeepLast(Tail(s))
         IN IF \E i \in 1..Len(rest) : rest[i] = Head(s) THEN rest
            ELSE <<Head(s)>> \o rest

\* the elements of s in first-occurrence order, each once (Series.unique(),
\* DataFrame.drop_duplicates() of a one-column frame)
RECURSIVE UniqueSeq(_)
UniqueSeq(s) ==
    IF s = <<>> THEN <<>>
    ELSE LET init == UniqueSeq(SubSeq(s, 1, Len(s) - 1))
             x == s[Len(s)]
         IN IF \E i \in 1..Len(init) : init[i] = x THEN init
            ELSE Append(init, x)

get_unique_patients(d) ==
    LET ids == UniqueSeq([i \in 1..Len(d) |-> d[i].PatientID])
    IN [i \in 1..Len(ids) |-> [id |-> ids[i]]]

\* str(value): a missing value prints as the text nan
StrOf(v) == IF v = NaN THEN <<"n", "a", "n">> ELSE v

\* mutant: only a missing value is skipped
SkipsOnlyMissing(v) == v = NaN

\* the row is skipped: pd.isna(value) or str(value).strip() == ""
SkippedValue(v) == v = NaN \/ Strip(StrOf(v), Whitespace) = <<>>

RECURSIVE get_field_values_from_long_data(_)
get_field_values_from_long_data(d) ==
    IF d = <<>> THEN <<>>
    ELSE LET row == Head(d)
             rest == get_field_values_from_long_data(Tail(d))
         IN IF SkippedValue(row.FieldValue) THEN rest
            ELSE <<[patient_id |-> row.PatientID,
                    field_name |-> row.FieldName,
                    raw_value |-> StrOf(row.FieldValue)]>> \o rest

\* all_field_values[start : start + size], with Python's clamping of the end
Slice(s, start, size) == SubSeq(s, start + 1, Min(start + size, Len(s)))

\* mutant: the next batch starts one record too far
NextStartSkipping(start, size) == start + size + 1

\* the successor of start_idx in range(0, len(all_field_values), batch_size)
NextStart(start, size) == start + size

\* the sizes of the batches the loop submits for n records from start on
RECURSIVE BatchSizes(_, _, _)
BatchSizes(start, n, size) ==
    IF start >= n THEN <<>>
    ELSE <<Min(start + size, n) - start>>
            \o BatchSizes(NextStart(start, size), n, size)

(***************************************************************************)
(* infer_data_type and the values it is given (schema compiler,            *)
(* SPARC_merged_final_all_files_SRTAINTYingestion.py)                      *)
(***************************************************************************)
\* DataFrame.to_csv of one cell: a missing value is written as nothing
ToCsvCell(v) == IF v = NaN THEN <<>> ELSE v

\* Series.astype(str) of one value
AsTypeStr(v) == StrOf(v)

IsDigits(s) == \A i \in 1..Len(s) : s[i] \in Digits

DigitValue(c) ==
    CASE c = "0" -> 0 [] c = "1" -> 1 [] c = "2" -> 2 [] c = "3" -> 3
      [] c = "4" -> 4 [] c = "5" -> 5 [] c = "6" -> 6 [] c = "7" -> 7
      [] c = "8" -> 8 [] c = "9" -> 9

RECURSIVE DigitsValue(_)
DigitsValue(s) ==
    IF s = <<>> THEN 0
    ELSE 10 * DigitsValue(SubSeq(s, 1, Len(s) - 1)) + DigitValue(s[Len(s)])

\* the first three decimals of a fraction, in thousandths
FracMilli(s) ==
    LET d(i) == IF i <= Len(s) THEN DigitValue(s[i]) ELSE 0
    IN 100 * d(1) + 10 * d(2) + d(3)

\* a number is kept in thousandths; na marks a value that did not coerce
NotANumber == [na |-> TRUE, milli |-> 0]

\* pd.to_numeric(errors='coerce') of one text: plain decimals coerce, any
\* other text (the empty text and the text nan included) becomes NaN
ToNumeric(s) ==
    LET dots == {i \in 1..Len(s) : s[i] = "."}
    IN IF s = NaN THEN NotANumber
       ELSE IF dots = {} THEN
          IF s # <<>> /\ IsDigits(s)
          THEN [na |-> FALSE, milli |-> 1000 * DigitsValue(s)]
          ELSE NotANumber
       ELSE IF Cardinality(dots) = 1 THEN
          LET p == CHOOSE i \in dots : TRUE
              ip == SubSeq(s, 1, p - 1)
              fp == SubSeq(s, p + 1, Len(s))
          IN IF IsDigits(ip) /\ IsDigits(fp) /\ Len(ip) + Len(fp) > 0
                /\ Len(fp) <= 3
             THEN [na |-> FALSE,
                   milli |-> 1000 * DigitsValue(ip) + FracMilli(fp)]
             ELSE NotANumber
       ELSE NotANumber

\* (x % 1 == 0), False for NaN
IsWhole(x) == ~x.na /\ x.milli % 1000 = 0

\* str.match(r'^\d{4}-\d{2}-\d{2}$')
MatchesIsoDate(s) ==
    /\ Len(s) = 10
    /\ \A i \in {1, 2, 3, 4, 6, 7, 9, 10} : s[i] \in Digits
    /\ s[5] = "-" /\ s[8] = "-"

NotMissing(v) == v # NaN

\* Series.dropna()
DropNa(series) == SelectSeq(series, NotMissing)

Coerces(s) == ~ToNumeric(s).na
CoercesWhole(s) == IsWhole(ToNumeric(s))

\* numeric_series.notna().sum()
NumericCount(series) == Cardinality({i \in 1..Len(series) : Coerces(series[i])})

\* (numeric_series % 1 == 0).sum()
WholeCount(series) == Cardinality({i \in 1..Len(series) : CoercesWhole(series[i])})

\* mutant: the numeric threshold is met at exactly 0.8
NumericRatioAtLeast(numeric_count, n) == 10 * numeric_count >= 8 * n

\* numeric_count / len(series) > 0.8
NumericRatioPasses(numeric_count, n) == 10 * numeric_count > 8 * n

\* (whole / numeric_count) > 0.95
IntegerRatioPasses(whole, numeric_count) == 100 * whole > 95 * numeric_count

infer_data_type(values) ==
    LET series == DropNa(values)
        numeric_count == NumericCount(series)
    IN IF Len(series) = 0 THEN "string"
       ELSE IF NumericRatioPasses(numeric_count, Len(series))
       THEN IF IntegerRatioPasses(WholeCount(series), numeric_count)
            THEN "integer"
            ELSE "float"
       ELSE IF \A i \in 1..Len(series) : MatchesIsoDate(series[i])
       THEN "date"
       ELSE "string"

(***************************************************************************)
(* CSV files: what to_csv writes and what read_csv reads back              *)
(***************************************************************************)
DigitChar(n) ==
    CASE n = 0 -> "0" [] n = 1 -> "1" [] n = 2 -> "2" [] n = 3 -> "3"
      [] n = 4 -> "4" [] n = 5 -> "5" [] n = 6 -> "6" [] n = 7 -> "7"
      [] n = 8 -> "8" [] n = 9 -> "9"

\* str(n) of a natural number
RECURSIVE IntText(_)
IntText(n) ==
    IF n < 10 THEN <<DigitChar(n)>>
    ELSE IntText(n \div 10) \o <<DigitChar(n % 10)>>

\* str(x) of a float given in thousandths: 7.0, 2.5, 0.125
FloatText(milli) ==
    LET f == milli % 1000
        d1 == f \div 100
        d2 == (f \div 10) % 10
        d3 == f % 10
        frac == IF d3 # 0 THEN <<DigitChar(d1), DigitChar(d2), DigitChar(d3)>>
                ELSE IF d2 # 0 THEN <<DigitChar(d1), DigitChar(d2)>>
                ELSE <<DigitChar(d1)>>
    IN IntText(milli \div 1000) \o <<".">> \o frac

\* the texts read_csv takes for missing by default (keep_default_na=True)
DefaultNaTexts ==
    { <<>>,
      <<"#", "N", "/", "A">>, <<"#", "N", "/", "A", " ", "N", "/", "A">>,
      <<"#", "N", "A">>, <<"-", "1", ".", "#", "I", "N", "D">>,
      <<"-", "1", ".", "#", "Q", "N", "A", "N">>, <<"-", "N", "a", "N">>,
      <<"-", "n", "a", "n">>, <<"1", ".", "#", "I", "N", "D">>,
      <<"1", ".", "#", "Q", "N", "A", "N">>, <<"<", "N", "A", ">">>,
      <<"N", "/", "A">>, <<"N", "A">>, <<"N", "U", "L", "L">>,
      <<"N", "a", "N">>, <<"N", "o", "n", "e">>, <<"n", "/", "a">>,
      <<"n", "a", "n">>, <<"n", "u", "l", "l">> }

\* na_values=['NA', 'N/A', '', ' '] of create_srt_compliant_files
ExtraNaTexts == { <<"N", "A">>, <<"N", "/", "A">>, <<>>, <<" ">> }

\* read_csv of one column that no dtype is given for. Cells whose text is in
\* na are missing. When every other cell is a number the column is numeric:
\* int64 when no cell is missing and none has a decimal point, else float64;
\* otherwise the column keeps its texts. The result gives each value as the
\* text str() and to_csv give for it, or NaN.
ReadCsvColumn(cells, na) ==
    LET present == {i \in 1..Len(cells) : cells[i] \notin na}
        numeric == \A i \in present : ~ToNumeric(cells[i]).na
        ints == /\ present = 1..Len(cells)
                /\ \A i \in present : \A j \in 1..Len(cells[i]) :
                                         cells[i][j] # "."
    IN [i \in 1..Len(cells) |->
          IF i \notin present THEN NaN
          ELSE IF ~numeric \/ present = {} THEN cells[i]
          ELSE IF ints THEN IntText(ToNumeric(cells[i]).milli \div 1000)
          ELSE FloatText(ToNumeric(cells[i]).milli)]

\* read_csv of a column read with dtype str
ReadCsvTextColumn(cells, na) ==
    [i \in 1..Len(cells) |-> IF cells[i] \in na THEN NaN ELSE cells[i]]

Column(rows, name) == [i \in 1..Len(rows) |-> rows[i][name]]

\* the values of one field as generate_database_tables sees them: written
\* by to_csv, read back with keep_default_na=False (no text is taken for
\* missing), then astype(str)
LoadedValues(cells) ==
    LET written == [i \in 1..Len(cells) |-> ToCsvCell(cells[i])]
        read == ReadCsvColumn(written, {})
    IN [i \in 1..Len(read) |-> AsTypeStr(read[i])]

\* the kinds of cell a field of the long table holds
WholeCell == <<"7">>
FracCell == <<"2", ".", "5">>
TextCell == <<"a">>
DateCell == <<"2", "0", "2", "0", "-", "0", "1", "-", "3", "1">>

Repeat(v, k) == [i \in 1..k |-> v]

InfIdle ==
    /\ inf_pc = "idle"
    /\ inf_cells = <<>>
    /\ inf_series = <<>>
    /\ inf_type = "none"

\* the cells of one field: some of each kind
InfInit ==
    /\ inf_pc = "start"
    /\ \E w \in 0..MaxWhole, f \in 0..MaxFrac, t \in 0..MaxText,
          d \in 0..MaxDate, m \in 0..MaxMissing :
          inf_cells = Repeat(WholeCell, w) \o Repeat(FracCell, f)
                        \o Repeat(TextCell, t) \o Repeat(DateCell, d)
                        \o Repeat(NaN, m)
    /\ inf_series = <<>>
    /\ inf_type = "none"

\* the field's values are loaded from the combined CSV (lines 32-36, 86)
LoadField ==
    /\ inf_pc = "start"
    /\ inf_series' = LoadedValues(inf_cells)
    /\ inf_pc' = "loaded"
    /\ UNCHANGED <<inf_cells, inf_type, inf_others>>

\* infer_data_type(x.astype(str)) for the field
InferField ==
    /\ inf_pc = "loaded"
    /\ inf_type' = infer_data_type(inf_series)
    /\ inf_pc' = "done"
    /\ UNCHANGED <<inf_cells, inf_series, inf_others>>

InfNext == LoadField \/ InferField

(***************************************************************************)
(* get_definitions_from_long_data: the second type inference               *)
(* (long_ingestion_script.py)                                              *)
(***************************************************************************)
\* a four-digit number from 1678 to 2261 is read as a year by pd.to_datetime
LooksLikeYear(s) ==
    /\ Len(s) = 4
    /\ IsDigits(s)
    /\ DigitsValue(s) >= 1678
    /\ DigitsValue(s) <= 2261

\* pd.to_datetime(value, errors='coerce') of a text is not NaT
ParsesAsDate(s) == MatchesIsoDate(s) \/ LooksLikeYear(s)

\* inferred_series.notna().sum() after pd.to_datetime
DateCount(values) ==
    Cardinality({i \in 1..Len(values) : ParsesAsDate(values[i])})

\* count > 0.9 * len(values)
PassesNinety(count, n) == 10 * count > 9 * n

\* the text of an integer: pd.to_numeric gives it as an int
IsIntegerText(s) == Coerces(s) /\ \A i \in 1..Len(s) : s[i] # "."

\* pd.api.types.infer_dtype(inferred_series.dropna(), skipna=True): the
\* coerced series is int64 when every value is the text of an integer, and
\* float64 as soon as one value is fractional or failed to coerce (NaN)
infer_dtype(values) ==
    IF \A i \in 1..Len(values) : IsIntegerText(values[i]) THEN "integer"
    ELSE "floating"

\* lines 65-89: the type of a field from its values
FieldTypeOf(field_values) ==
    LET values == DropNa(field_values)
    IN IF values = <<>> THEN "STRING"
       ELSE IF PassesNinety(DateCount(values), Len(values)) THEN "DATE"
       ELSE IF PassesNinety(NumericCount(values), Len(values))
       THEN IF infer_dtype(values) = "integer" THEN "INT"
            ELSE IF infer_dtype(values) = "floating" THEN "FLOAT"
            ELSE "STRING"
       ELSE "STRING"

\* the rows of t whose column col equals v
RowsWith(t, col, v) ==
    LET idx == {i \in 1..Len(t) : t[i][col] = v}
    IN [k \in 1..Cardinality(idx) |->
          t[CHOOSE i \in idx : Cardinality({j \in idx : j <= i}) = k]]

\* one definition per unique field name, in first-occurrence order
get_definitions_from_long_data(d) ==
    LET names == UniqueSeq(Column(d, "FieldName"))
    IN [i \in 1..Len(names) |->
          [field_name |-> names[i],
           field_type |-> FieldTypeOf(Column(RowsWith(d, "FieldName", names[i]),
                                             "FieldValue")),
           is_delimited |-> FALSE]]

\* ---- the frames offered to get_definitions_from_long_data
YearCell == <<"2", "0", "2", "0">>
BlankCell == <<" ">>

\* the kind most cells of the field have, and the cells it may have one of
DefMajorCells == {WholeCell, DateCell, YearCell}
DefMinorCells == <<WholeCell, FracCell, TextCell, BlankCell, NaN>>

\* the cells of DefMinorCells at the positions of picked, in order
MinorCells(picked) ==
    SelectSeq(DefMinorCells, LAMBDA c : \E i \in picked : DefMinorCells[i] = c)

DefRow(name, value) ==
    [PatientID |-> "P1", FieldName |-> name, FieldValue |-> value]

RowsOf(name, cells) == [i \in 1..Len(cells) |-> DefRow(name, cells[i])]

DefIdle ==
    /\ def_pc = "idle"
    /\ def_df = <<>>
    /\ field_defs = <<>>

\* the rows of field f1, alone or with one row of a field f2 before or
\* after them
DefInit ==
    /\ def_pc = "start"
    /\ field_defs = <<>>
    /\ \E major \in DefMajorCells, n \in 0..MaxMajor,
          picked \in SUBSET (1..Len(DefMinorCells)),
          other \in {"none", "before", "after"} :
          LET f1 == RowsOf("f1", Repeat(major, n) \o MinorCells(picked))
              f2 == <<DefRow("f2", WholeCell)>>
          IN def_df = CASE other = "none" -> f1
                        [] other = "before" -> f2 \o f1
                        [] other = "after" -> f1 \o f2

\* field_defs = get_definitions_from_long_data(df, field_name_col, raw_value_col)
GetDefinitions ==
    /\ def_pc = "start"
    /\ field_defs' = get_definitions_from_long_data(def_df)
    /\ def_pc' = "returned"
    /\ UNCHANGED <<def_df, def_others>>

DefNext == GetDefinitions

(***************************************************************************)
(* ingest_long_dataframe                                                   *)
(***************************************************************************)
IngPatients == {"P1", "P2"}
IngFields == {"f1", "f2"}
IngValues == {<<"7">>, <<" ">>, NaN}
IngRows == [PatientID : IngPatients, FieldName : IngFields, FieldValue : IngValues]

\* the exception a failing call raises: one per call
ExcOf(svc, n) == [svc |-> svc, call |-> n]
NoExc == [svc |-> "none", call |-> 0]

IngIdle ==
    /\ df = <<>>
    /\ batch_size = 0
    /\ ing_pc = "idle"
    /\ all_field_values = <<>>
    /\ start_idx = 0
    /\ calls = <<>>
    /\ caught = NoExc
    /\ propagated = NoExc
    /\ committed = FALSE

IngInit ==
    /\ df \in UNION {[1..k -> IngRows] : k \in 0..MaxRows}
    /\ batch_size \in 1..MaxBatch
    /\ ing_pc = "patients"
    /\ all_field_values = <<>>
    /\ start_idx = 0
    /\ calls = <<>>
    /\ caught = NoExc
    /\ propagated = NoExc
    /\ committed = FALSE

\* a call to the persistence service: it returns (ok) or raises
Call(svc, records, ok, next_pc) ==
    /\ calls' = Append(calls, [svc |-> svc, records |-> records, ok |-> ok])
    /\ IF ok THEN /\ ing_pc' = next_pc
                  /\ caught' = caught
       ELSE /\ ing_pc' = "except"
            /\ caught' = ExcOf(svc, Len(calls) + 1)

\* 1. patient_service.create_many(get_unique_patients(df))
IngestPatients ==
    /\ ing_pc = "patients"
    /\ \E ok \in BOOLEAN : Call("patient", get_unique_patients(df), ok, "defs")
    /\ UNCHANGED <<df, batch_size, all_field_values, start_idx, propagated,
                   committed, ing_others>>

\* 2. field_def_service.create_many(get_definitions_from_long_data(df)),
\* then all_field_values is built and the loop starts at 0
IngestFieldDefs ==
    /\ ing_pc = "defs"
    /\ \E ok \in BOOLEAN :
          /\ Call("field_definition", get_definitions_from_long_data(df), ok,
                  "values")
          /\ all_field_values' =
                IF ok THEN get_field_values_from_long_data(df)
                ELSE all_field_values
    /\ start_idx' = 0
    /\ UNCHANGED <<df, batch_size, propagated, committed, ing_others>>

\* 3. one pass of the loop over range(0, len(all_field_values), batch_size)
IngestBatch ==
    /\ ing_pc = "values"
    /\ start_idx < Len(all_field_values)
    /\ \E ok \in BOOLEAN :
          /\ Call("field_value", Slice(all_field_values, start_idx, batch_size),
                  ok, "values")
          /\ start_idx' = IF ok THEN NextStart(start_idx, batch_size)
                          ELSE start_idx
    /\ UNCHANGED <<df, batch_size, all_field_values, propagated, committed,
                   ing_others>>

\* 4. session.commit(), after the loop
Commit ==
    /\ ing_pc = "values"
    /\ start_idx >= Len(all_field_values)
    /\ \E ok \in BOOLEAN :
          /\ Call("commit", <<>>, ok, "returned")
          /\ committed' = ok
    /\ UNCHANGED <<df, batch_size, all_field_values, start_idx, propagated,
                   ing_others>>

\* mutant: the handler rolls back but does not re-raise
ExceptSwallow ==
    /\ ing_pc = "except"
    /\ calls' = Append(calls, [svc |-> "rollback", records |-> <<>>, ok |-> TRUE])
    /\ ing_pc' = "returned"
    /\ UNCHANGED <<df, batch_size, all_field_values, start_idx, caught,
                   propagated, committed, ing_others>>

\* except Exception: session.rollback(); raise
ExceptHandler ==
    /\ ing_pc = "except"
    /\ calls' = Append(calls, [svc |-> "rollback", records |-> <<>>, ok |-> TRUE])
    /\ propagated' = caught
    /\ ing_pc' = "raised"
    /\ UNCHANGED <<df, batch_size, all_field_values, start_idx, caught,
                   committed, ing_others>>

IngNext ==
    \/ IngestPatients
    \/ IngestFieldDefs
    \/ IngestBatch
    \/ Commit
    \/ ExceptHandler

(***************************************************************************)
(* The scripts that pass CSV files on: the reshaper's save, the schema     *)
(* compiler generate_database_tables and create_srt_compliant_files        *)
(***************************************************************************)
\* the files: absent, or a table (a sequence of rows)
Absent == [exists |-> FALSE, rows |-> <<>>]
Table(rows) == [exists |-> TRUE, rows |-> rows]

FileNames == {"combined", "patients", "field_defs", "field_values",
              "values_compliant", "defs_compliant"}

\* SRT_FIELD_TYPES, with the default 'string' for a type it does not map
SrtFieldType(t) ==
    CASE t = "string" -> "string"
      [] t = "date" -> "date"
      [] t = "float" -> "float"
      [] t = "integer" -> "int"
      [] t = "boolean" -> "boolean"
      [] OTHER -> "string"

\* the reshaper's execution block: a non-empty result is saved as the
\* combined CSV (columns: patient id, Value, Variable)
SavedCombined(table) ==
    [i \in 1..Len(table) |->
        [PatientID |-> table[i].PatientID,
         Variable |-> table[i].Variable,
         Value |-> ToCsvCell(table[i].Value)]]

\* generate_database_tables: the three tables it writes from the combined CSV
GeneratedTables(csv) ==
    LET ids == ReadCsvTextColumn(Column(csv, "PatientID"), {})
        variables == ReadCsvColumn(Column(csv, "Variable"), {})
        values == ReadCsvColumn(Column(csv, "Value"), {})
        combined_df == [i \in 1..Len(csv) |->
                          [PatientID |-> ids[i], Variable |-> variables[i],
                           Value |-> values[i]]]
        patient_ids == UniqueSeq(ids)
        names == UniqueSeq(variables)
        TypeOf(name) ==
            LET grp == Column(RowsWith(combined_df, "Variable", name), "Value")
            IN infer_data_type([i \in 1..Len(grp) |-> AsTypeStr(grp[i])])
    IN [patients |-> [i \in 1..Len(patient_ids) |-> [PatientID |-> patient_ids[i]]],
        field_defs |-> [i \in 1..Len(names) |->
                          [FieldName |-> names[i], Data_Type |-> TypeOf(names[i]),
                           Description |-> names[i]]],
        field_values |-> [i \in 1..Len(csv) |->
                          [PatientID |-> ids[i], FieldName |-> variables[i],
                           FieldValue |-> ToCsvCell(values[i])]]]

HasValue(row) == row.FieldValue # NaN

\* read_csv gives the column a numeric dtype: some cell is present and every
\* present cell is a number
ColumnIsNumeric(cells, na) ==
    /\ \E i \in 1..Len(cells) : cells[i] \notin na
    /\ \A i \in 1..Len(cells) : cells[i] \notin na => ~ToNumeric(cells[i]).na

\* name.lower() raises AttributeError for a name that is not a str: a missing
\* name (a float NaN) or a name of a numeric column
HasNoLower(name, numeric_column) == name = NaN \/ numeric_column

\* create_srt_compliant_files, first part: the patient identifiers and the
\* filtered, sanitized field values it writes from the field-values CSV;
\* raised tells that .apply(sanitize_field_name) of line 75 raised
CompliantValues(csv) ==
    LET na == DefaultNaTexts \cup ExtraNaTexts
        ids == ReadCsvTextColumn(Column(csv, "PatientID"), na)
        names == ReadCsvColumn(Column(csv, "FieldName"), na)
        values == ReadCsvColumn(Column(csv, "FieldValue"), na)
        frame == [i \in 1..Len(csv) |->
                    [PatientID |-> ids[i], FieldName |-> names[i],
                     FieldValue |-> values[i]]]
        df_filtered == SelectSeq(frame, HasValue)
        patient_ids == UniqueSeq(ids)
        numeric_names == ColumnIsNumeric(Column(csv, "FieldName"), na)
        raised == \E i \in 1..Len(df_filtered) :
                     HasNoLower(df_filtered[i].FieldName, numeric_names)
    IN [patients |-> [i \in 1..Len(patient_ids) |->
                        [PatientID |-> ToCsvCell(patient_ids[i])]],
        raised |-> raised,
        values |-> IF raised THEN <<>>
                   ELSE [i \in 1..Len(df_filtered) |->
                      [PatientID |-> ToCsvCell(df_filtered[i].PatientID),
                       FieldName |-> sanitize_field_name(df_filtered[i].FieldName),
                       FieldValue |-> df_filtered[i].FieldValue]]]

\* create_srt_compliant_files, second part: the field definitions with
\* sanitized names and mapped types; raised tells that line 94 raised
CompliantDefs(csv) ==
    LET names == ReadCsvColumn(Column(csv, "FieldName"), DefaultNaTexts)
        descr == ReadCsvColumn(Column(csv, "Description"), DefaultNaTexts)
        numeric_names == ColumnIsNumeric(Column(csv, "FieldName"), DefaultNaTexts)
        raised == \E i \in 1..Len(csv) : HasNoLower(names[i], numeric_names)
    IN [raised |-> raised,
        rows |-> IF raised THEN <<>>
                 ELSE [i \in 1..Len(csv) |->
                         [FieldName |-> sanitize_field_name(names[i]),
                          DataType |-> SrtFieldType(csv[i].Data_Type),
                          Description |-> ToCsvCell(descr[i])]]]

CmpPatients == { <<"P", "1">>, <<"P", "2">> }
CmpVariables == { <<"A", "(", "_", "1">>, <<"A", "_", "_", "1">>,
                  <<"B", "_", "1">> }
CmpValues == { <<"7">>, NaN }
CmpRows == [PatientID : CmpPatients, Variable : CmpVariables, Value : CmpValues]

CmpIdle ==
    /\ long_table = <<>>
    /\ files = [f \in FileNames |-> Absent]
    /\ cmp_ran = {}

\* a Field_Values_Final.csv that was put in the working directory
CsvNames == { <<"(">>, <<"B", "_", "1">>, <<"N", "A">> }
CsvValues == { <<"7">>, <<"N", "A">>, <<" ">>, <<>> }
CsvRows == [PatientID : CmpPatients, FieldName : CsvNames, FieldValue : CsvValues]

\* a Field_Definitions_Final.csv for the names of a field-values table
DefinitionsFor(rows) ==
    LET names == UniqueSeq(Column(rows, "FieldName"))
    IN [i \in 1..Len(names) |->
          [FieldName |-> names[i], Data_Type |-> "integer",
           Description |-> names[i]]]

\* either the reshaper's result is in memory and no file has been written
\* yet, or the working directory holds a field-values CSV, with or without
\* the field-definitions CSV next to it
CmpInit ==
    /\ cmp_ran = {}
    /\ \/ /\ long_table \in UNION {[1..k -> CmpRows] : k \in 0..MaxLongRows}
          /\ files = [f \in FileNames |-> Absent]
       \/ /\ long_table = <<>>
          /\ \E rows \in UNION {[1..k -> CsvRows] : k \in 0..MaxFileRows},
                with_defs \in BOOLEAN :
                files = [f \in FileNames |->
                           IF f = "field_values" THEN Table(rows)
                           ELSE IF f = "field_defs" /\ with_defs
                           THEN Table(DefinitionsFor(rows))
                           ELSE Absent]

\* SPARC_patients_metadata_merged_final.py, lines 175-179
SaveCombinedCsv ==
    /\ cmp_ran' = cmp_ran \cup {"save"}
    /\ files' = IF long_table # <<>>
                THEN [files EXCEPT !["combined"] = Table(SavedCombined(long_table))]
                ELSE files
    /\ UNCHANGED <<long_table, cmp_others>>

\* generate_database_tables(INPUT_CSV_PATH)
GenerateDatabaseTables ==
    /\ cmp_ran' = cmp_ran \cup {"generate"}
    /\ files' =
         IF ~files["combined"].exists THEN files
         ELSE LET out == GeneratedTables(files["combined"].rows)
              IN [files EXCEPT !["patients"] = Table(out.patients),
                               !["field_defs"] = Table(out.field_defs),
                               !["field_values"] = Table(out.field_values)]
    /\ UNCHANGED <<long_table, cmp_others>>

\* create_srt_compliant_files(INPUT_CSV_PATH)
CreateSrtCompliantFiles ==
    /\ cmp_ran' = cmp_ran \cup {"comply"}
    /\ files' =
         IF ~files["field_values"].exists THEN files
         ELSE LET out == CompliantValues(files["field_values"].rows)
                  first == [files EXCEPT !["patients"] = Table(out.patients)]
                  second == [first EXCEPT
                               !["values_compliant"] = Table(out.values)]
                  defs == CompliantDefs(files["field_defs"].rows)
              IN IF out.raised THEN first
                 ELSE IF ~files["field_defs"].exists \/ defs.raised THEN second
                 ELSE [second EXCEPT !["defs_compliant"] = Table(defs.rows)]
    /\ UNCHANGED <<long_table, cmp_others>>

CmpNext == SaveCombinedCsv \/ GenerateDatabaseTables \/ CreateSrtCompliantFiles

(***************************************************************************)
(* process_excel_to_single_long_dataframe                                  *)
(* (SPARC_patients_metadata_merged_final.py)                               *)
(***************************************************************************)
\* the label 'DEIDENTIFIED_MASTER_PATIENT_ID'; it has no space and no
\* lower-case letter, so canonicalizing leaves it as it is
key_column == <<"DEIDENTIFIED_MASTER_PATIENT_ID">>

\* a cell of a datetime64 column: the marker and the digits of year, month
\* and day; NaT is the missing one
IsTimestamp(v) == Len(v) = 9 /\ v[1] = "Timestamp"
NaT == <<"NaT">>

\* Series.dt.strftime('%Y-%m-%d'): NaT gives a missing value
Strftime(v) ==
    IF v = NaT THEN NaN
    ELSE SubSeq(v, 2, 5) \o <<"-">> \o SubSeq(v, 6, 7) \o <<"-">> \o SubSeq(v, 8, 9)

\* str.replace(old, new) for one-character texts
ReplaceChar(s, old, new) == [i \in 1..Len(s) |-> IF s[i] = old THEN new ELSE s[i]]

\* df.columns.str.strip().str.replace(' ', '_').str.upper()
CanonLabel(label) == Upper(ReplaceChar(Strip(label, Whitespace), " ", "_"))

\* sheet_name.upper().replace(' ', '_') + '_'
SheetPrefix(sheet_name) == ReplaceChar(Upper(sheet_name), " ", "_") \o <<"_">>

\* the column labels after canonicalizing and prefixing (lines 64-78)
RenamedColumns(sheet) ==
    [i \in 1..Len(sheet.columns) |->
        LET col == CanonLabel(sheet.columns[i])
        IN IF col # key_column THEN SheetPrefix(sheet.name) \o col ELSE col]

\* df.drop_duplicates(subset=df.columns, keep='first')
DropDuplicates(rows) == UniqueSeq(rows)

\* mutant: cumcount() without the + 1
CumCountFromZero(rows, k, i) ==
    Cardinality({j \in 1..(i - 1) : rows[j][k] = rows[i][k]})

\* df.groupby(key_column).cumcount() + 1 for row i, the key in column k
RecordNumber(rows, k, i) ==
    Cardinality({j \in 1..(i - 1) : rows[j][k] = rows[i][k]}) + 1

\* the frame of one sheet when it is melted (lines 56-103): labels renamed,
\* duplicate rows dropped, RECORD_NUMBER added, datetime columns formatted
PreparedFrame(sheet) ==
    LET columns == RenamedColumns(sheet)
        k == CHOOSE i \in 1..Len(columns) : columns[i] = key_column
        rows == DropDuplicates(sheet.rows)
    IN [columns |-> columns,
        key |-> k,
        record_number |-> [i \in 1..Len(rows) |-> RecordNumber(rows, k, i)],
        rows |-> [i \in 1..Len(rows) |->
                    [c \in 1..Len(columns) |->
                        IF sheet.kinds[c] = "datetime"
                        THEN AsTypeStr(Strftime(rows[i][c]))
                        ELSE rows[i][c]]]]

\* the positions of the columns that are melted, in column order
ValueVars(frame) ==
    LET idx == {c \in 1..Len(frame.columns) : frame.columns[c] # key_column}
    IN [n \in 1..Cardinality(idx) |->
          CHOOSE c \in idx : Cardinality({d \in idx : d <= c}) = n]

\* mutant: the melt leaves out the missing cells
MeltDroppingMissing(frame) ==
    LET value_vars == ValueVars(frame)
        n == Len(frame.rows)
        all == [x \in 1..(n * Len(value_vars)) |->
                  LET c == value_vars[((x - 1) \div n) + 1]
                      r == ((x - 1) % n) + 1
                  IN [PatientID |-> frame.rows[r][frame.key],
                      RECORD_NUMBER |-> frame.record_number[r],
                      Original_Variable |-> frame.columns[c],
                      Value |-> frame.rows[r][c]]]
        Present(row) == row.Value # NaN
    IN SelectSeq(all, Present)

\* df.melt(id_vars=[key_column, 'RECORD_NUMBER'], value_vars=...): one row
\* per cell, column after column, the rows of a column in frame order
Melt(frame) ==
    LET value_vars == ValueVars(frame)
        n == Len(frame.rows)
    IN [x \in 1..(n * Len(value_vars)) |->
          LET c == value_vars[((x - 1) \div n) + 1]
              r == ((x - 1) % n) + 1
          IN [PatientID |-> frame.rows[r][frame.key],
              RECORD_NUMBER |-> frame.record_number[r],
              Original_Variable |-> frame.columns[c],
              Value |-> frame.rows[r][c]]]

\* lines 128-137: Variable = Original_Variable + '_' + str(RECORD_NUMBER)
FinalLong(long_df) ==
    [x \in 1..Len(long_df) |->
        [PatientID |-> long_df[x].PatientID,
         Value |-> long_df[x].Value,
         Variable |-> long_df[x].Original_Variable \o <<"_">>
                        \o IntText(long_df[x].RECORD_NUMBER)]]

HasKeyColumn(sheet) == \E i \in 1..Len(sheet.columns) : sheet.columns[i] = key_column

\* ---- the workbooks offered to the reshaper
RsPatients == { <<"P", "1">>, <<"P", "2">> }
RsTimestamp == <<"Timestamp", "2", "0", "2", "0", "0", "1", "3", "1">>

CellPool(kind) ==
    CASE kind = "key" -> RsPatients
      [] kind = "text" -> { <<"7">>, NaN }
      [] kind = "datetime" -> { RsTimestamp, NaT }

RECURSIVE RowSet(_)
RowSet(kinds) ==
    IF kinds = <<>> THEN { <<>> }
    ELSE {<<c>> \o r : c \in CellPool(Head(kinds)), r \in RowSet(Tail(kinds))}

SheetNames == { <<"a">>, <<"A", " ", "B">> }

SheetShapes ==
    { [columns |-> <<key_column, <<"B", " ", "C">>>>, kinds |-> <<"key", "text">>],
      [columns |-> <<key_column, <<"c">>, <<" ", "d">>>>,
       kinds |-> <<"key", "text", "datetime">>],
      [columns |-> << <<"c">> >>, kinds |-> << "text" >>] }

SheetsUpTo(n) ==
    UNION {
      {[name |-> nm, columns |-> sh.columns, kinds |-> sh.kinds, rows |-> rs] :
          nm \in SheetNames,
          rs \in UNION {[1..k -> RowSet(sh.kinds)] : k \in 0..n}} :
      sh \in SheetShapes }

\* no frame yet
NoFrame == [columns |-> <<>>, key |-> 0, record_number |-> <<>>, rows |-> <<>>]

RsIdle ==
    /\ rs_pc = "idle"
    /\ all_data = <<>>
    /\ sheet_idx = 0
    /\ sheet_df = NoFrame
    /\ all_long_dfs = <<>>
    /\ final_combined_df = <<>>

\* a workbook of one sheet, or of two sheets with different names
RsInit ==
    /\ rs_pc = "read"
    /\ \/ all_data = <<>>
       \/ \E s \in SheetsUpTo(MaxSheetRows) : all_data = <<s>>
       \/ \E s, t \in SheetsUpTo(MaxBookRows) :
             s.name # t.name /\ all_data = <<s, t>>
    /\ sheet_idx = 0
    /\ sheet_df = NoFrame
    /\ all_long_dfs = <<>>
    /\ final_combined_df = <<>>

\* lines 20-38: the file is missing or unreadable and an empty frame is
\* returned, or the requested sheets are read
ReadExcel ==
    /\ rs_pc = "read"
    /\ \E outcome \in {"read", "missing", "unreadable"} :
          rs_pc' = IF outcome = "read" THEN "loop" ELSE "no_input"
    /\ sheet_idx' = 1
    /\ UNCHANGED <<all_data, sheet_df, all_long_dfs, final_combined_df,
                   rs_others>>

\* mutant: a sheet without the key column ends the loop (break for continue)
ProcessSheetBreaking ==
    /\ rs_pc = "loop"
    /\ sheet_idx <= Len(all_data)
    /\ LET sheet == all_data[sheet_idx]
       IN IF ~HasKeyColumn(sheet)
          THEN /\ all_long_dfs' = all_long_dfs
               /\ sheet_df' = sheet_df
               /\ sheet_idx' = Len(all_data) + 1
          ELSE /\ sheet_df' = PreparedFrame(sheet)
               /\ all_long_dfs' = Append(all_long_dfs, FinalLong(Melt(sheet_df')))
               /\ sheet_idx' = sheet_idx + 1
    /\ UNCHANGED <<rs_pc, all_data, final_combined_df, rs_others>>

\* one pass of the loop over the sheets (lines 46-141)
ProcessSheet ==
    /\ rs_pc = "loop"
    /\ sheet_idx <= Len(all_data)
    /\ LET sheet == all_data[sheet_idx]
       IN IF ~HasKeyColumn(sheet)
          THEN /\ all_long_dfs' = all_long_dfs
               /\ sheet_df' = sheet_df
          ELSE /\ sheet_df' = PreparedFrame(sheet)
               /\ all_long_dfs' = Append(all_long_dfs, FinalLong(Melt(sheet_df')))
    /\ sheet_idx' = sheet_idx + 1
    /\ UNCHANGED <<rs_pc, all_data, final_combined_df, rs_others>>

\* lines 146-157: an empty frame when no sheet gave a table, else pd.concat
Concatenate ==
    /\ rs_pc = "loop"
    /\ sheet_idx > Len(all_data)
    /\ final_combined_df' = Concat(all_long_dfs)
    /\ rs_pc' = "done"
    /\ UNCHANGED <<all_data, sheet_idx, sheet_df, all_long_dfs, rs_others>>

RsNext == ReadExcel \/ ProcessSheet \/ Concatenate

(***************************************************************************)
(* The entity-identifier list each stage derives from a long table         *)
(***************************************************************************)
PatStages == {"generate", "comply", "adapter"}

\* the entity keys of the combined CSV; the empty text is a missing key
PatKeys == { <<"P", "1">>, <<"P", "2">>, <<>> }

\* the combined CSV with the key column keys
PatCombinedCsv(keys) ==
    [i \in 1..Len(keys) |->
        [PatientID |-> keys[i], Variable |-> <<"B", "_", "1">>,
         Value |-> <<"a">>]]

\* the frame run_long_ingestion.py reads from the compliant field values
\* and hands to ingest_long_dataframe
PatLoadedFrame(csv) ==
    LET ids == ReadCsvColumn(Column(csv, "PatientID"), DefaultNaTexts)
        names == ReadCsvColumn(Column(csv, "FieldName"), DefaultNaTexts)
        values == ReadCsvColumn(Column(csv, "FieldValue"), DefaultNaTexts)
    IN [i \in 1..Len(csv) |->
          [PatientID |-> ids[i], FieldName |-> names[i],
           FieldValue |-> values[i]]]

NotExtracted == [done |-> FALSE, ids |-> <<>>]

PatIdle ==
    /\ pat_keys = <<>>
    /\ pat_ids = [s \in PatStages |-> NotExtracted]

PatInit ==
    /\ pat_keys \in UNION {[1..k -> PatKeys] : k \in 0..MaxKeys}
    /\ pat_ids = [s \in PatStages |-> NotExtracted]

Extracted(stage, ids) ==
    /\ ~pat_ids[stage].done
    /\ pat_ids' = [pat_ids EXCEPT ![stage] = [done |-> TRUE, ids |-> ids]]
    /\ UNCHANGED <<pat_keys, pat_others>>

\* generate_database_tables, lines 43-45: Patient_Identifiers_Final.csv
ExtractInGenerate ==
    Extracted("generate",
              Column(GeneratedTables(PatCombinedCsv(pat_keys)).patients,
                     "PatientID"))

\* create_srt_compliant_files, lines 61-62, from the field values that
\* generate_database_tables wrote
ExtractInComply ==
    LET csv == GeneratedTables(PatCombinedCsv(pat_keys)).field_values
    IN Extracted("comply", Column(CompliantValues(csv).patients, "PatientID"))

\* get_unique_patients(df, patient_id_col) for the frame of the compliant
\* field values
ExtractInAdapter ==
    LET generated == GeneratedTables(PatCombinedCsv(pat_keys)).field_values
        long_df == PatLoadedFrame(CompliantValues(generated).values)
    IN Extracted("adapter", Column(get_unique_patients(long_df), "id"))

PatNext == ExtractInGenerate \/ ExtractInComply \/ ExtractInAdapter

(***************************************************************************)
(* Specifications                                                          *)
(***************************************************************************)
InitIngest ==
    IngInit /\ SanIdle /\ InfIdle /\ CmpIdle /\ RsIdle /\ PatIdle /\ DefIdle
SpecIngest == InitIngest /\ [][IngNext]_vars

InitSanitize ==
    SanInit /\ IngIdle /\ InfIdle /\ CmpIdle /\ RsIdle /\ PatIdle /\ DefIdle
SpecSanitize == InitSanitize /\ [][SanNext]_vars

InitInfer ==
    InfInit /\ SanIdle /\ IngIdle /\ CmpIdle /\ RsIdle /\ PatIdle /\ DefIdle
SpecInfer == InitInfer /\ [][InfNext]_vars

InitCompile ==
    CmpInit /\ SanIdle /\ IngIdle /\ InfIdle /\ RsIdle /\ PatIdle /\ DefIdle
SpecCompile == InitCompile /\ [][CmpNext]_vars

InitReshape ==
    RsInit /\ SanIdle /\ IngIdle /\ InfIdle /\ CmpIdle /\ PatIdle /\ DefIdle
SpecReshape == InitReshape /\ [][RsNext]_vars

InitPatients ==
    PatInit /\ SanIdle /\ IngIdle /\ InfIdle /\ CmpIdle /\ RsIdle /\ DefIdle
SpecPatients == InitPatients /\ [][PatNext]_vars

InitDefinitions ==
    DefInit /\ SanIdle /\ IngIdle /\ InfIdle /\ CmpIdle /\ RsIdle /\ PatIdle
SpecDefinitions == InitDefinitions /\ [][DefNext]_vars

(***************************************************************************)
(* Claims about ingest_long_dataframe                                      *)
(***************************************************************************)
IsFieldValueCall(c) == c.svc = "field_value"

\* the field-value batches handed to create_many so far, in call order
SubmittedBatches ==
    LET cs == SelectSeq(calls, IsFieldValueCall)
    IN [i \in 1..Len(cs) |-> cs[i].records]

CommitAttempted == \E i \in 1..Len(calls) : calls[i].svc = "commit"

\* line 159 has run: the field-definition call returned
ValuesBuilt ==
    \E i \in 1..Len(calls) : calls[i].svc = "field_definition" /\ calls[i].ok

CeilDiv(a, b) == (a + b - 1) \div b

\* C1: when a create_many call or the commit raises, rollback() is called,
\* the commit never completes, the run does not return normally and the
\* exception that reaches the caller is the one that call raised; commit is
\* attempted only after every earlier call returned without error.
C1_RollbackAndReraise ==
    /\ \A i \in 1..Len(calls) :
          ~calls[i].ok =>
             /\ calls[i].svc \in {"patient", "field_definition", "field_value",
                                  "commit"}
             /\ ~committed
             /\ ing_pc \in {"except", "raised"}
             /\ ing_pc = "except" => (Len(calls) = i /\ propagated = NoExc)
             /\ ing_pc = "raised" =>
                   /\ Len(calls) = i + 1
                   /\ calls[i + 1].svc = "rollback"
                   /\ propagated = ExcOf(calls[i].svc, i)
    /\ \A i \in 1..Len(calls) :
          calls[i].svc = "commit" =>
             /\ \A j \in 1..(i - 1) :
                   calls[j].ok /\ calls[j].svc \notin {"commit", "rollback"}
             /\ Len(SubmittedBatches)
                   = Len(BatchSizes(0, Len(all_field_values), batch_size))
    /\ committed => \A i \in 1..Len(calls) : calls[i].ok
    /\ ing_pc = "raised" => \E i \in 1..Len(calls) : ~calls[i].ok

\* the second of two field-value batches raised, and the run ended in the
\* caller with that exception after a rollback
C1_Witness ==
    /\ ing_pc = "raised"
    /\ Len(calls) = 5
    /\ calls[3].svc = "field_value" /\ calls[3].ok
    /\ calls[4].svc = "field_value" /\ ~calls[4].ok
    /\ calls[5].svc = "rollback"
    /\ propagated = ExcOf("field_value", 4)

\* C2: the L field-value records are submitted in ceil(L/B) batches, in list
\* order: at any moment the batches submitted are a prefix of the list, and
\* once the loop is over every batch but the last has B records, the last has
\* 1..B, and their concatenation is the list. 12000 records in batches of
\* 5000 go as 5000, 5000, 2000.
C2_BatchPartition ==
    LET L == Len(all_field_values)
        B == batch_size
        bs == SubmittedBatches
        ok == {i \in 1..Len(calls) : calls[i].svc = "field_value" /\ calls[i].ok}
    IN /\ ValuesBuilt =>
             /\ all_field_values = get_field_values_from_long_data(df)
             /\ Concat(bs) = SubSeq(all_field_values, 1,
                                    Min(Len(bs) * B, L))
             /\ start_idx = Cardinality(ok) * B
       /\ CommitAttempted =>
             /\ Len(bs) = CeilDiv(L, B)
             /\ \A k \in 1..(Len(bs) - 1) : Len(bs[k]) = B
             /\ Len(bs) > 0 => Len(bs[Len(bs)]) \in 1..B
             /\ Concat(bs) = all_field_values
       /\ BatchSizes(0, 12000, DEFAULT_BATCH_SIZE) = <<5000, 5000, 2000>>

\* three records in batches of two: a full batch, then a batch of one
C2_Witness ==
    /\ CommitAttempted
    /\ Len(all_field_values) = 3
    /\ batch_size = 2
    /\ Len(SubmittedBatches) = 2
    /\ Len(SubmittedBatches[2]) = 1

\* C16: the calls to the persistence service are in order: the patients'
\* create_many first, the field definitions' create_many second, then the
\* field-value batches, then one commit, which a run that returns has made
\* after all batches; every field-value record submitted has a patient id
\* submitted in the first call and a field name submitted in the second, and
\* a value that is not null, empty or whitespace only.
C16_CallOrder ==
    LET n == Len(calls)
        Svc(i) == calls[i].svc
        patient_ids == IF n >= 1 THEN {calls[1].records[k].id :
                                         k \in 1..Len(calls[1].records)}
                       ELSE {}
        field_names == IF n >= 2 THEN {calls[2].records[k].field_name :
                                         k \in 1..Len(calls[2].records)}
                       ELSE {}
    IN /\ \A i \in 1..n :
             /\ i = 1 <=> Svc(i) = "patient"
             /\ Svc(i) = "field_definition" => i = 2
             /\ Svc(i) = "field_value" =>
                   /\ Svc(2) = "field_definition"
                   /\ \A j \in 3..i : Svc(j) = "field_value"
             /\ Svc(i) = "commit" =>
                   /\ i >= 3
                   /\ Svc(2) = "field_definition"
                   /\ \A j \in 3..(i - 1) : Svc(j) = "field_value"
                   /\ \A j \in 1..n : Svc(j) = "commit" => j = i
       /\ ing_pc = "returned" =>
             /\ n >= 3
             /\ Svc(n) = "commit"
             /\ Concat(SubmittedBatches) = get_field_values_from_long_data(df)
       /\ \A i \in 1..n :
             Svc(i) = "field_value" =>
                \A k \in 1..Len(calls[i].records) :
                   LET r == calls[i].records[k]
                   IN /\ r.patient_id \in patient_ids
                      /\ r.field_name \in field_names
                      /\ r.raw_value # NaN
                      /\ r.raw_value # <<>>
                      /\ \E c \in 1..Len(r.raw_value) :
                            r.raw_value[c] \notin Whitespace

\* a frame of three rows, one of them with a blank value: the run returned
\* after the two create_many calls, two batches of one record and the commit
C16_Witness ==
    /\ ing_pc = "returned"
    /\ committed
    /\ Len(df) = 3
    /\ \E i \in 1..3 : df[i].FieldValue = <<" ">>
    /\ Len(calls) = 5
    /\ calls[3].svc = "field_value" /\ Len(calls[3].records) = 1
    /\ calls[4].svc = "field_value" /\ Len(calls[4].records) = 1
    /\ calls[5].svc = "commit"

IsBlankText(s) == Strip(s, Whitespace) = <<>>
NotBlankCell(v) == v # NaN /\ ~IsBlankText(v)

\* C5: the type of a field is the type inferred from its cells with the
\* missing and blank ones removed (STRING when none remain).
C5_MissingCellsIgnored ==
    inf_pc = "done" =>
        inf_type = infer_data_type(SelectSeq(inf_cells, NotBlankCell))

(***************************************************************************)
(* Claims about the reshaper                                               *)
(***************************************************************************)
\* the sheet whose pass of the loop ended last, when it had the key column
LastSheetProcessed ==
    /\ rs_pc \in {"loop", "done"}
    /\ sheet_idx > 1
    /\ HasKeyColumn(all_data[sheet_idx - 1])

VariablesOf(table) == {table[x].Variable : x \in 1..Len(table)}

NonKeyColumns(columns) == {c \in 1..Len(columns) : columns[c] # key_column}

\* C6: attribute names are unique across the sheets of a workbook: the long
\* tables of two sheets share no attribute name, and two columns of one
\* sheet get different names.
C6_NamesUniqueAcrossSheets ==
    /\ \A i, j \in 1..Len(all_long_dfs) :
          i # j => VariablesOf(all_long_dfs[i]) \cap VariablesOf(all_long_dfs[j]) = {}
    /\ \A c, d \in NonKeyColumns(sheet_df.columns) :
          c # d => sheet_df.columns[c] # sheet_df.columns[d]

\* a row of the sheet as it is when melted: datetime cells formatted
FormattedRow(sheet, row) ==
    [c \in 1..Len(row) |->
        IF sheet.kinds[c] = "datetime" THEN AsTypeStr(Strftime(row[c]))
        ELSE row[c]]

\* the first position of x in s
FirstIndex(s, x) ==
    CHOOSE i \in 1..Len(s) : s[i] = x /\ \A j \in 1..(i - 1) : s[j] # x

\* C7: in the frame of a sheet the rows are the sheet's rows without exact
\* duplicates, in sheet order, and the rows of every entity are numbered
\* 1, 2, 3, ... in that order: the numbers of an entity with m rows are
\* exactly 1..m, smaller for the earlier row.
C7_SequencePerEntity ==
    LastSheetProcessed =>
        LET sheet == all_data[sheet_idx - 1]
            src == [i \in 1..Len(sheet.rows) |-> FormattedRow(sheet, sheet.rows[i])]
            rows == sheet_df.rows
            rn == sheet_df.record_number
            k == sheet_df.key
            OfEntity(e) == {i \in 1..Len(rows) : rows[i][k] = e}
        IN /\ Len(rn) = Len(rows)
           /\ {rows[i] : i \in 1..Len(rows)} = {src[i] : i \in 1..Len(src)}
           /\ \A i, j \in 1..Len(rows) :
                 i < j => /\ rows[i] # rows[j]
                          /\ FirstIndex(src, rows[i]) < FirstIndex(src, rows[j])
           /\ \A e \in {rows[i][k] : i \in 1..Len(rows)} :
                 /\ {rn[i] : i \in OfEntity(e)} = 1..Cardinality(OfEntity(e))
                 /\ \A i, j \in OfEntity(e) : i < j => rn[i] < rn[j]

\* a sheet of three rows, the third a duplicate of the first, the second of
\* the same entity: the frame has two rows, numbered 1 and 2
C7_Witness ==
    /\ LastSheetProcessed
    /\ Len(all_data[sheet_idx - 1].rows) = 3
    /\ all_data[sheet_idx - 1].rows[1] = all_data[sheet_idx - 1].rows[3]
    /\ sheet_df.record_number = <<1, 2>>

KeyedAmong(n) ==
    SelectSeq(SubSeq(all_data, 1, n), HasKeyColumn)

\* C9: a sheet without the key column is passed over and adds no rows, every
\* sheet with the key column adds its whole long table, and the frame
\* returned is the concatenation of those tables, empty when there is none.
C9_SkipSheetWithoutKey ==
    /\ rs_pc \in {"loop", "done"} =>
          LET keyed == KeyedAmong(sheet_idx - 1)
          IN /\ Len(all_long_dfs) = Len(keyed)
             /\ \A n \in 1..Len(keyed) :
                   all_long_dfs[n] = FinalLong(Melt(PreparedFrame(keyed[n])))
    /\ rs_pc = "done" =>
          /\ sheet_idx = Len(all_data) + 1
          /\ final_combined_df = Concat(all_long_dfs)
          /\ KeyedAmong(Len(all_data)) = <<>> => final_combined_df = <<>>

\* the first of two sheets lacks the key column, the second has it and its
\* rows are in the frame returned
C9_Witness ==
    /\ rs_pc = "done"
    /\ Len(all_data) = 2
    /\ ~HasKeyColumn(all_data[1])
    /\ HasKeyColumn(all_data[2])
    /\ Len(all_data[1].rows) = 1
    /\ final_combined_df # <<>>

(***************************************************************************)
(* Claims about the field-definition catalog                               *)
(***************************************************************************)
\* C10: the compliant Field Definitions output holds one definition per
\* distinct sanitized field name: no two of its rows share a FieldName.
C10_OneDefinitionPerSanitizedName ==
    LET rows == files["defs_compliant"].rows
    IN \A i, j \in 1..Len(rows) :
          rows[i].FieldName = rows[j].FieldName => i = j

(***************************************************************************)
(* Claims about create_srt_compliant_files                                 *)
(***************************************************************************)
\* the sanitization grammar: one or more characters of [a-z0-9_], the first
\* and the last not an underscore
MatchesGrammar(name) ==
    /\ name # <<>>
    /\ \A i \in 1..Len(name) : name[i] \in NameChars
    /\ name[1] # "_"
    /\ name[Len(name)] # "_"

\* C11: every attribute name in the compliant Field Values and Field
\* Definitions outputs is non-empty and matches the sanitization grammar.
C11_NamesMatchGrammar ==
    \A f \in {"values_compliant", "defs_compliant"} :
       \A i \in 1..Len(files[f].rows) :
          MatchesGrammar(files[f].rows[i].FieldName)

\* the null tokens of create_srt_compliant_files
NullTokens == ExtraNaTexts \cup DefaultNaTexts

HasNonNullValue(row) == row.FieldValue \notin NullTokens

\* C12: no row of the compliant Field Values output has a value that is null
\* or a null token, and the output's rows are the input rows whose value is
\* not a null token, in their order, each with its PatientID and its value
\* unchanged.
C12_NullTokensFiltered ==
    files["values_compliant"].exists =>
        LET out == files["values_compliant"].rows
            kept == SelectSeq(files["field_values"].rows, HasNonNullValue)
        IN /\ \A i \in 1..Len(out) :
                 out[i].FieldValue \notin NullTokens \cup {NaN}
           /\ Len(out) = Len(kept)
           /\ \A i \in 1..Len(out) :
                 /\ out[i].PatientID = kept[i].PatientID
                 /\ out[i].FieldValue = kept[i].FieldValue

\* C14: when create_srt_compliant_files has run and the field-values input
\* or the field-definitions input does not exist, none of its three output
\* files has been written.
C14_NoPartialOutput ==
    ("comply" \in cmp_ran
        /\ (~files["field_values"].exists \/ ~files["field_defs"].exists)) =>
       /\ ~files["patients"].exists
       /\ ~files["values_compliant"].exists
       /\ ~files["defs_compliant"].exists

(***************************************************************************)
(* Claims about the entity-identifier lists                                *)
(***************************************************************************)
\* the key as a stage holds it: the adapter's frame has NaN for a missing key
KeySeenBy(stage, key) ==
    IF stage = "adapter" /\ key = <<>> THEN NaN ELSE key

NonNullValuesOf(name) ==
    LET rows == SelectSeq(def_df, LAMBDA r : r.FieldName = name /\ r.FieldValue # NaN)
    IN Column(rows, "FieldValue")

\* the value is a whole number
IsIntegerValue(v) == Coerces(v) /\ CoercesWhole(v)

\* C15: get_definitions_from_long_data returns one definition per distinct
\* field name; a field without non-null values is STRING; else with more
\* than 90% of its non-null values parsing as dates it is DATE; else with
\* more than 90% coercing to numbers it is INT when the coerced values are
\* integers and FLOAT when they are not; otherwise STRING. Exactly 90% passes
\* neither test, and no other type is produced.
C15_SecondInferenceVariant ==
    def_pc = "returned" =>
       /\ \A i, j \in 1..Len(field_defs) :
             field_defs[i].field_name = field_defs[j].field_name => i = j
       /\ {field_defs[i].field_name : i \in 1..Len(field_defs)}
             = {def_df[i].FieldName : i \in 1..Len(def_df)}
       /\ \A i \in 1..Len(field_defs) :
             LET values == NonNullValuesOf(field_defs[i].field_name)
                 n == Len(values)
                 dates == Cardinality({k \in 1..n : ParsesAsDate(values[k])})
                 coerced == {k \in 1..n : Coerces(values[k])}
                 numbers == Cardinality(coerced)
                 type == field_defs[i].field_type
             IN /\ type \in {"STRING", "DATE", "INT", "FLOAT"}
                /\ type = IF n = 0 THEN "STRING"
                          ELSE IF 10 * dates > 9 * n THEN "DATE"
                          ELSE IF 10 * numbers > 9 * n
                          THEN IF \A k \in coerced : IsIntegerValue(values[k])
                               THEN "INT" ELSE "FLOAT"
                          ELSE "STRING"

(***************************************************************************)
(* Claims about sanitize_field_name                                        *)
(***************************************************************************)
\* C3: sanitize_field_name is idempotent, and for every input its output is
\* a text over [a-z0-9_] that neither starts nor ends with an underscore.
C3_SanitizeIdempotent ==
    /\ san_pc # "start" =>
          /\ \A i \in 1..Len(san_out1) : san_out1[i] \in NameChars
          /\ san_out1 # <<>> =>
                (san_out1[1] # "_" /\ san_out1[Len(san_out1)] # "_")
    /\ san_pc = "twice" => san_out2 = san_out1

\* a raw name with an upper-case letter, a run outside the class and an
\* underscore at an end has been sanitized twice
C3_Witness ==
    /\ san_pc = "twice"
    /\ san_in = <<"_", "B", "(">>
    /\ san_out1 = <<"b">>

=============================================================================
